---- MODULE Spec2Model ----
(***************************************************************************)
(* Model of the 4BSC daily-quest bot (src/unnamed/part_000, second file,   *)
(* lines 343-927; src/index.js holds an earlier revision of the same       *)
(* classes).                                                               *)
(*                                                                         *)
(* A state is the program suspended at an await.  An action delivers the   *)
(* awaited result (an HTTP answer, an RPC answer, a timer, the value a     *)
(* callee returned) and runs the synchronous code up to the next await.    *)
(***************************************************************************)
EXTENDS Integers, Sequences, FiniteSets, TLC

VARIABLES
    stack,      \* call stack of requestWithRetry / login frames (top = last)
    ret,        \* completion of the callee that returned last
    net,        \* the HTTP traffic of the session
    axios,      \* this.axios: the transport object and its default credential
    token,      \* this.token
    faults,     \* failures the servers may still produce, last HTTP answer heard
    now,        \* Date.now()
    slept,      \* duration (ms) of the sleep() the program is suspended in
    tx,         \* the sendRawTransaction call in progress, or the last one
    rpc,        \* the RPC traffic of the current chain submission
    harness,    \* caller of a single client operation
    task,       \* the runDailyTasks call in progress
    mainv,      \* main(): position in the run loop
    summary,    \* summaryData of the current cycle
    db,         \* the WalletDB object
    file,       \* wallet_db.json
    config,     \* config.json
    accounts    \* accounts.json as parsed: the credential of each account

vars ==
    <<stack, ret, net, axios, token, faults, now, slept, tx, rpc, harness, task, mainv,
      summary, db, file, config, accounts>>

\* what the run loop owns: untouched by a single client operation
loopVars == <<task, mainv, summary, db, file, config, accounts>>

----------------------------------------------------------------------------
(* Program constants *)

Retries == 5
BackoffMs == 3000
TxRetries == 3
TxBackoffMs == 5000
EstimateTimeoutMs == 10000
SendTimeoutMs == 30000
WaitTimeoutMs == 60000
TimeoutGasLimit == 300000
FallbackGasLimit == 200000
ActionPauseMs == 2000
AccountPauseMs == 2000
CycleSleepMs == 3600000

(* Bounds of the model *)

\* nested login() calls; session-expiry answers (sentinel message, 401, 403) and
\* other failures (network, 5xx) the server produces during one client operation
MaxLoginDepth == 3
MaxAuthFaults == 2
MaxPlainFaults == 1
\* failures during one client operation that exhausts its attempts: of any kind,
\* and the session-expiry answers among them
MaxRetryFaults == 5
MaxRetryAuthFaults == 1
\* timeouts and non-revert errors of the RPC node during one chain submission
MaxHangFaults == 6
MaxRpcFaults == 4
\* the run loop: accounts, cycles, clock (hours), failures of the servers (of any
\* kind) during one execution of the loop
NumAccounts == 2
MaxCycles == 2
MaxTime == 2
MaxRunFaults == 1

----------------------------------------------------------------------------
(* Values *)

NoVal ==
    [kind |-> "none", status |-> 0, hasBody |-> FALSE, code |-> 0, message |-> "",
     hasData |-> FALSE, x |-> FALSE, y |-> FALSE, pts |-> "none", ecode |-> "",
     b |-> FALSE]

\* a 2xx answer: res.data is the body {code, message, data: {...}}
Res(hasBody, code, message, hasData, x, y) ==
    [NoVal EXCEPT !.kind = "res", !.status = 200, !.hasBody = hasBody, !.code = code,
                  !.message = message, !.hasData = hasData, !.x = x, !.y = y]

\* a rejection: error.response.status (0: no response), error.code, error.message
Err(status, ecode, message) ==
    [NoVal EXCEPT !.kind = "err", !.status = status, !.ecode = ecode, !.message = message]

Bool(b) == [NoVal EXCEPT !.kind = "bool", !.b = b]

NoRet == [k |-> "none", v |-> NoVal]
Returned(v) == [k |-> "return", v |-> v]
Thrown(e) == [k |-> "throw", v |-> e]

Endpoints == {"loginWallet", "authWallet", "verifyDailyTask", "createRequest", "createRepositories"}

SessionMessages == {"TOKEN_INVALID", "Session expired"}

\* what the server can answer to one call
HttpErrors ==
    { Err(0, "ECONNRESET", "socket hang up"),
      Err(0, "ETIMEDOUT", "timeout"),
      Err(0, "", "Proxy connection ended before receiving CONNECT response"),
      Err(401, "ERR_BAD_REQUEST", "Request failed with status code 401"),
      Err(403, "ERR_BAD_REQUEST", "Request failed with status code 403"),
      Err(500, "ERR_BAD_RESPONSE", "Request failed with status code 500") }

Bodies ==
    {Res(FALSE, 0, "", FALSE, FALSE, FALSE)} \cup
    { Res(TRUE, c, m, d, x, y) :
        c \in {0, 1}, m \in {""} \cup SessionMessages, d \in BOOLEAN,
        x \in BOOLEAN, y \in BOOLEAN }

PlainAnswers ==
    { a \in Bodies \cup HttpErrors : (~a.hasData => ~a.x /\ ~a.y) }

\* the status call: data = {is_create_request: x, is_create_agent: y, message: pts};
\* the message is absent, a text such as "You've earned 150 pts.", or no string
StatusAnswers ==
    PlainAnswers \cup
    { [a EXCEPT !.pts = p] : a \in {r \in PlainAnswers : r.hasData /\ r.code = 0},
                             p \in {"text", "other"} }

\* the other calls: data = {nonce} / {token} / {id}, present or not (x)
OtherAnswers == { a \in PlainAnswers : ~a.y /\ (a.code # 0 => ~a.hasData) }

Answers(url) == IF url = "verifyDailyTask" THEN StatusAnswers ELSE OtherAnswers

\* the answers that belong to the failure budget of the server: those that signal
\* an expired session (sentinel message, 401, 403), and every other answer that is
\* not the well-formed success of the endpoint
IsAuthFault(a) ==
    \/ a.kind = "err" /\ a.status \in {401, 403}
    \/ a.kind = "res" /\ a.hasBody /\ a.message \in SessionMessages
WellFormed(url, a) ==
    /\ a.kind = "res" /\ a.hasBody /\ a.code = 0 /\ a.hasData
    /\ IF url = "verifyDailyTask" THEN a.pts = "text" ELSE a.x
IsPlainFault(url, a) == ~IsAuthFault(a) /\ ~WellFormed(url, a)

----------------------------------------------------------------------------
(* Headers and correlation ids *)

NoHeaders == [k \in {} |-> <<0, 0>>]
CallerTid == <<0, 0>>
OptionSet == { [headers |-> NoHeaders], [headers |-> [tid |-> CallerTid]] }
NoOptions == [headers |-> NoHeaders]

\* { ...a, ...b }
Spread(a, b) == [k \in (DOMAIN a) \cup (DOMAIN b) |-> IF k \in DOMAIN b THEN b[k] ELSE a[k]]

\* `${Date.now()}-${uuidv4()}`: the uuid is drawn fresh
generateTid(n) == <<now, n.uuid + 1>>

\* the per-call options spread last: { method, url, data, headers, ...options }
RequestConfigOptionsLast(url, options, tid) ==
    LET headers == Spread(options.headers, [tid |-> tid])
    IN  Spread(Spread([url |-> url], [headers |-> headers]), options)

\* const headers = { ...options.headers, tid: generateTid() };
\* this.axios({ method, url, data, ...options, headers })
RequestConfig(url, options, tid) ==
    LET headers == Spread(options.headers, [tid |-> tid])
    IN  Spread(Spread([url |-> url], options), [headers |-> headers])

\* the tid header a request goes out with
NoTid == <<-1, -1>>
TidOf(cfg) == IF "tid" \in DOMAIN cfg.headers THEN cfg.headers.tid ELSE NoTid

\* one call through this.axios: the traffic after it (uuid counts the calls)
IssueCall(n, ax, url, options) ==
    LET cfg == RequestConfig(url, options, generateTid(n))
    IN  [n EXCEPT !.uuid = @ + 1,
                  !.tids = @ \cup {TidOf(cfg)},
                  !.called = @ \cup {cfg.url},
                  !.last = [url |-> cfg.url, tid |-> TidOf(cfg),
                            auth |-> ax.auth, gen |-> ax.gen]]

\* axios.create(axiosConfig): a new transport, without default credential
initAxios(ax) == [gen |-> ax.gen + 1, auth |-> 0]

----------------------------------------------------------------------------
(* Frames *)

Frame(fn, pc, url, options) ==
    [fn |-> fn, pc |-> pc, url |-> url, options |-> options, i |-> 0, err |-> NoVal,
     logins |-> 0]

RwrFrame(url, options) == Frame("requestWithRetry", "awaitCall", url, options)
LoginFrame == Frame("login", "awaitNonce", "", NoOptions)

Top == stack[Len(stack)]
Pop == SubSeq(stack, 1, Len(stack) - 1)
LoginDepth == Cardinality({k \in 1..Len(stack) : stack[k].fn = "login"})

Running(fn, pc) == stack # <<>> /\ Top.fn = fn /\ Top.pc = pc

\* one failure of kind k is taken from the budget of its kind and from the total
Spend(k) ==
    /\ faults[k] > 0 /\ faults.total > 0
    /\ faults' = [faults EXCEPT ![k] = @ - 1, !.total = @ - 1]

\* the answer of the server to the call the top frame waits for; heard keeps it
Answer(a) ==
    /\ a \in Answers(Top.url)
    /\ LET k == IF IsAuthFault(a) THEN "auth"
                ELSE IF IsPlainFault(Top.url, a) THEN "plain" ELSE "none"
       IN  IF k = "none"
           THEN faults' = [faults EXCEPT !.heard = a]
           ELSE /\ faults[k] > 0 /\ faults.total > 0
                /\ faults' = [faults EXCEPT ![k] = @ - 1, !.total = @ - 1, !.heard = a]

isAuthError(e) == e.status = 401 \/ e.status = 403
isNetworkError(e) ==
    \/ e.status = 0
    \/ e.ecode = "ECONNRESET"
    \/ e.ecode = "ETIMEDOUT"
    \/ e.message = "Proxy connection ended before receiving CONNECT response"

SessionExpired(r) == r.hasBody /\ r.message \in SessionMessages

----------------------------------------------------------------------------
(* Continuations of a frame: each sets every client variable *)

\* return v / throw e out of the top frame
Return(v) ==
    /\ stack' = Pop
    /\ ret' = Returned(v)
    /\ UNCHANGED <<net, axios, token, slept>>

Throw(e) ==
    /\ stack' = Pop
    /\ ret' = Thrown(e)
    /\ UNCHANGED <<net, axios, token, slept>>

\* await this.login() from frame f: login() runs to its first await, the nonce call
CallLogin(f) ==
    /\ LoginDepth < MaxLoginDepth
    /\ stack' = Pop \o <<[f EXCEPT !.logins = @ + 1], LoginFrame,
                         RwrFrame("loginWallet", NoOptions)>>
    /\ net' = IssueCall(net, axios, "loginWallet", NoOptions)
    /\ ret' = NoRet
    /\ UNCHANGED <<axios, token, slept>>

\* await this.axios({...}) from frame f at pc
CallAxios(f, pc) ==
    /\ stack' = Pop \o <<[f EXCEPT !.pc = pc]>>
    /\ net' = IssueCall(net, axios, f.url, f.options)
    /\ ret' = NoRet
    /\ UNCHANGED <<axios, token, slept>>

\* catch (error) { ... } of requestWithRetry
CatchThrowsEarlierError(f, e) ==
    IF isAuthError(e)
    THEN CallLogin([f EXCEPT !.pc = "awaitLoginCatch", !.err = e])
    ELSE IF f.i < Retries - 1
    THEN /\ stack' = Pop \o <<[f EXCEPT !.pc = "awaitSleep", !.err = e]>>
         /\ slept' = (f.i + 1) * BackoffMs
         /\ ret' = NoRet
         /\ UNCHANGED <<net, axios, token>>
    ELSE Throw(f.err)

CatchConstantBackoff(f, e) ==
    IF isAuthError(e)
    THEN CallLogin([f EXCEPT !.pc = "awaitLoginCatch", !.err = e])
    ELSE IF f.i < Retries - 1
    THEN /\ stack' = Pop \o <<[f EXCEPT !.pc = "awaitSleep", !.err = e]>>
         /\ slept' = BackoffMs
         /\ ret' = NoRet
         /\ UNCHANGED <<net, axios, token>>
    ELSE Throw(e)

Catch(f, e) ==
    IF isAuthError(e)
    THEN CallLogin([f EXCEPT !.pc = "awaitLoginCatch", !.err = e])
    ELSE IF f.i < Retries - 1
    THEN /\ stack' = Pop \o <<[f EXCEPT !.pc = "awaitSleep", !.err = e]>>
         /\ slept' = (f.i + 1) * BackoffMs
         /\ ret' = NoRet
         /\ UNCHANGED <<net, axios, token>>
    ELSE Throw(e)

----------------------------------------------------------------------------
(* requestWithRetry *)

\* the first call of an attempt is answered
RwrAnswered ==
    /\ Running("requestWithRetry", "awaitCall")
    /\ \E a \in Answers(Top.url) :
        /\ Answer(a)
        /\ IF a.kind = "res"
           THEN IF SessionExpired(a)
                THEN CallLogin([Top EXCEPT !.pc = "awaitLoginTry"])
                ELSE Return(a)
           ELSE Catch(Top, a)
    /\ UNCHANGED <<now, tx, rpc, harness, loopVars>>

\* login() called from the try block has returned
RwrReloggedTry ==
    /\ Running("requestWithRetry", "awaitLoginTry")
    /\ ret.k = "return"
    /\ IF ret.v.b
       THEN CallAxios(Top, "awaitReissueTry")
       ELSE Catch(Top, Err(0, "", "Re-login failed during retry"))
    /\ UNCHANGED <<faults, now, tx, rpc, harness, loopVars>>

\* the call reissued from the try block is answered
RwrReissuedTry ==
    /\ Running("requestWithRetry", "awaitReissueTry")
    /\ \E a \in Answers(Top.url) :
        /\ Answer(a)
        /\ IF a.kind = "res" THEN Return(a) ELSE Catch(Top, a)
    /\ UNCHANGED <<now, tx, rpc, harness, loopVars>>

\* login() called from the catch block has returned
RwrReloggedCatch ==
    /\ Running("requestWithRetry", "awaitLoginCatch")
    /\ ret.k = "return"
    /\ IF ret.v.b
       THEN CallAxios(Top, "awaitReissueCatch")
       ELSE Throw(Top.err)
    /\ UNCHANGED <<faults, now, tx, rpc, harness, loopVars>>

\* the call reissued from the catch block is answered
RwrReissuedCatch ==
    /\ Running("requestWithRetry", "awaitReissueCatch")
    /\ \E a \in Answers(Top.url) :
        /\ Answer(a)
        /\ IF a.kind = "res" THEN Return(a) ELSE Throw(a)
    /\ UNCHANGED <<now, tx, rpc, harness, loopVars>>

RwrSleptAlwaysRebuilds ==
    /\ Running("requestWithRetry", "awaitSleep")
    /\ LET ax == initAxios(axios)
           f == [Top EXCEPT !.i = @ + 1, !.pc = "awaitCall"]
       IN  /\ axios' = ax
           /\ stack' = Pop \o <<f>>
           /\ net' = IssueCall(net, ax, f.url, f.options)
    /\ slept' = 0
    /\ ret' = NoRet
    /\ UNCHANGED <<token, faults, now, tx, rpc, harness, loopVars>>

\* the backoff is over: rebuild the transport after a network error, next attempt
RwrSlept ==
    /\ Running("requestWithRetry", "awaitSleep")
    /\ LET ax == IF isNetworkError(Top.err) THEN initAxios(axios) ELSE axios
           f == [Top EXCEPT !.i = @ + 1, !.pc = "awaitCall"]
       IN  /\ axios' = ax
           /\ stack' = Pop \o <<f>>
           /\ net' = IssueCall(net, ax, f.url, f.options)
    /\ slept' = 0
    /\ ret' = NoRet
    /\ UNCHANGED <<token, faults, now, tx, rpc, harness, loopVars>>

----------------------------------------------------------------------------
(* login *)

\* catch (e) { return false }: the value keeps, for the record, the code of the
\* body that made login() throw (0 when something else did)
LoginFailed ==
    Return([Bool(FALSE) EXCEPT !.code = IF ret.k = "return" /\ ret.v.hasBody
                                        THEN ret.v.code ELSE 0])

\* requestWithRetry(loginWallet) has completed
LoginNonce ==
    /\ Running("login", "awaitNonce")
    /\ ret.k # "none"
    /\ IF /\ ret.k = "return"
          /\ ret.v.hasBody /\ ret.v.code = 0 /\ ret.v.hasData /\ ret.v.x
       THEN /\ stack' = Pop \o <<[Top EXCEPT !.pc = "awaitAuth"],
                                 RwrFrame("authWallet", NoOptions)>>
            /\ net' = IssueCall(net, axios, "authWallet", NoOptions)
            /\ ret' = NoRet
            /\ UNCHANGED <<axios, token, slept>>
       ELSE LoginFailed
    /\ UNCHANGED <<faults, now, tx, rpc, harness, loopVars>>

\* requestWithRetry(authWallet) has completed
LoginAuth ==
    /\ Running("login", "awaitAuth")
    /\ ret.k # "none"
    /\ IF ret.k = "return" /\ ret.v.hasBody /\ ret.v.code = 0 /\ ret.v.hasData
       THEN LET t == IF ret.v.x THEN net.tokens + 1 ELSE -1
            IN  /\ token' = t
                /\ axios' = [axios EXCEPT !.auth = t]
                /\ net' = [net EXCEPT !.tokens = @ + 1]
                /\ stack' = Pop
                /\ ret' = Returned(Bool(TRUE))
                /\ UNCHANGED slept
       ELSE LoginFailed
    /\ UNCHANGED <<faults, now, tx, rpc, harness, loopVars>>

ClientStep ==
    \/ RwrAnswered
    \/ RwrReloggedTry
    \/ RwrReissuedTry
    \/ RwrReloggedCatch
    \/ RwrReissuedCatch
    \/ RwrSlept
    \/ LoginNonce
    \/ LoginAuth


----------------------------------------------------------------------------
(* sendRawTransaction *)

\* what the node (or the timer of runWithTimeout) answers to one RPC operation
RpcVal(op, gas, status) ==
    [op |-> op, kind |-> "value", gas |-> gas, status |-> status, code |-> "",
     message |-> ""]
RpcErr(op, code, message) ==
    [op |-> op, kind |-> "error", gas |-> 0, status |-> 0, code |-> code,
     message |-> message]
NoAnswer == [op |-> "", kind |-> "none", gas |-> 0, status |-> 0, code |-> "", message |-> ""]

GasEstimates == {21000, 99999}

NodeErrors(op) ==
    { RpcErr(op, "CALL_EXCEPTION", "missing revert data"),
      RpcErr(op, "UNKNOWN_ERROR", "execution reverted: already submitted"),
      RpcErr(op, "NETWORK_ERROR", "could not detect network"),
      RpcErr(op, "INSUFFICIENT_FUNDS", "insufficient funds for gas") }

NodeAnswers(op) ==
    NodeErrors(op) \cup
    CASE op = "estimateGas" -> { RpcVal(op, g, 0) : g \in GasEstimates }
      [] op = "sendTransaction" -> { RpcVal(op, 0, 0) }
      [] op = "wait" -> { RpcVal(op, 0, 1), RpcVal(op, 0, 0) }

\* Promise.race([promise, timeout]): the operation settles first, or the timer
\* rejects with errorMsg after ms and the operation is left running
runWithTimeout(op, ms, errorMsg) ==
    NodeAnswers(op) \cup {[RpcErr(op, "", errorMsg) EXCEPT !.kind = "timeout", !.gas = ms]}

isRevert(e) ==
    \/ e.code = "CALL_EXCEPTION"
    \/ e.message = "execution reverted: already submitted"

\* answers that belong to the failure budget of the node: errors, timeouts and
\* receipts of a reverted transaction
IsRpcFault(a) == ~(a.kind = "value" /\ (a.op = "wait" => a.status = 1))

RpcAnswer(a) ==
    IF IsRpcFault(a)
    THEN Spend("rpc")
    ELSE faults' = faults

\* the traffic after the answer a: a timer that won leaves its operation in flight
Heard(r, a) ==
    [r EXCEPT !.answer = a,
              !.lost = IF a.kind = "timeout" THEN @ + 1 ELSE @,
              !.lostSends = IF a.kind = "timeout" /\ a.op = "sendTransaction"
                            THEN @ + 1 ELSE @,
              !.accepted = IF a.kind = "value" /\ a.op = "sendTransaction"
                           THEN @ + 1 ELSE @,
              !.mined = IF a.kind = "value" /\ a.op = "wait" /\ a.status = 1
                        THEN @ + 1 ELSE @,
              !.unwatched = IF a.op = "wait" /\ a.kind # "value" /\ ~isRevert(a)
                            THEN @ + 1 ELSE @]

TxActive == tx.pc \in {"awaitEstimate", "awaitSend", "awaitWait", "awaitSleep"}
TxAt(pc) == stack = <<>> /\ tx.pc = pc

\* return b from sendRawTransaction
TxReturn(f, r, b) ==
    /\ tx' = [f EXCEPT !.pc = "done", !.result = b]
    /\ rpc' = r
    /\ ret' = Returned(Bool(b))
    /\ slept' = 0

\* the outer catch without its revert check
TxCatchRetriesRevert(f, r, e) ==
    IF f.i < TxRetries - 1
    THEN /\ tx' = [f EXCEPT !.pc = "awaitSleep"]
         /\ rpc' = r
         /\ slept' = TxBackoffMs
         /\ ret' = NoRet
    ELSE TxReturn(f, r, FALSE)

\* the outer catch with a budget of one more attempt
TxCatchOneMoreAttempt(f, r, e) ==
    IF isRevert(e)
    THEN TxReturn(f, r, FALSE)
    ELSE IF f.i < TxRetries
    THEN /\ tx' = [f EXCEPT !.pc = "awaitSleep"]
         /\ rpc' = r
         /\ slept' = TxBackoffMs
         /\ ret' = NoRet
    ELSE TxReturn(f, r, FALSE)

\* the outer catch (error) { ... }
TxCatch(f, r, e) ==
    IF isRevert(e)
    THEN TxReturn(f, r, FALSE)
    ELSE IF f.i < TxRetries - 1
    THEN /\ tx' = [f EXCEPT !.pc = "awaitSleep"]
         /\ rpc' = r
         /\ slept' = TxBackoffMs
         /\ ret' = NoRet
    ELSE TxReturn(f, r, FALSE)

\* one pass of the loop body up to its first await: encode the call data, then
\* start the gas estimation
TxAttempt(f, r) ==
    IF f.encodable
    THEN /\ tx' = [f EXCEPT !.pc = "awaitEstimate"]
         /\ rpc' = [r EXCEPT !.estimates = @ + 1]
         /\ ret' = NoRet
         /\ slept' = 0
    ELSE TxCatch(f, r, RpcErr("encode", "INVALID_ARGUMENT", "invalid BigNumberish value"))

\* this.wallet.sendTransaction({ ...txRequest, gasLimit })
TxBroadcast(f, r, gasLimit) ==
    /\ tx' = [f EXCEPT !.pc = "awaitSend", !.gasLimit = gasLimit]
    /\ rpc' = [r EXCEPT !.sends = @ + 1, !.gas = gasLimit]
    /\ ret' = NoRet
    /\ slept' = 0

\* the calls made to the node and what the node has answered; of the
\* transactions of this submission: lostSends broadcasts still running after
\* their timer won, accepted taken by the node, unwatched accepted with an
\* outcome nobody has seen, mined confirmed with status 1
NoRpc ==
    [estimates |-> 0, sends |-> 0, waits |-> 0, gas |-> 0, lost |-> 0,
     lostSends |-> 0, accepted |-> 0, unwatched |-> 0, mined |-> 0,
     answer |-> NoAnswer]
NoTx ==
    [pc |-> "idle", i |-> 0, gasLimit |-> 0, id |-> 0, encodable |-> TRUE,
     result |-> FALSE]

\* sendRawTransaction(selector, paramTypes, paramValues) is called
sendRawTransaction(id, encodable) ==
    TxAttempt([NoTx EXCEPT !.id = id, !.encodable = encodable],
              [NoRpc EXCEPT !.lost = rpc.lost])

\* the catch (gasError) without its timeout branch
gasLimitNoTimeoutBranch(a) ==
    IF a.kind = "value" THEN (a.gas * 120) \div 100
    ELSE IF isRevert(a) THEN -1
    ELSE FallbackGasLimit

\* the catch (gasError) with one default for every error that is not a revert
gasLimitOneDefault(a) ==
    IF a.kind = "value" THEN (a.gas * 120) \div 100
    ELSE IF isRevert(a) THEN -1
    ELSE TimeoutGasLimit

\* the gas limit after the estimation answered a; -1: return false
gasLimitFor(a) ==
    IF a.kind = "value" THEN (a.gas * 120) \div 100
    ELSE IF a.message = "Gas Estimate Timeout" THEN TimeoutGasLimit
    ELSE IF isRevert(a) THEN -1
    ELSE FallbackGasLimit

\* the gas estimation (or its 10 s timer) has answered
TxEstimated ==
    /\ TxAt("awaitEstimate")
    /\ \E a \in runWithTimeout("estimateGas", EstimateTimeoutMs, "Gas Estimate Timeout") :
        /\ RpcAnswer(a)
        /\ IF gasLimitFor(a) = -1
           THEN TxReturn(tx, Heard(rpc, a), FALSE)
           ELSE TxBroadcast(tx, Heard(rpc, a), gasLimitFor(a))
    /\ UNCHANGED <<stack, net, axios, token, now, harness, loopVars>>

\* the broadcast awaited without a timer: a node that hangs leaves the call pending
TxSentWithoutTimer ==
    /\ TxAt("awaitSend")
    /\ \E a \in runWithTimeout("sendTransaction", SendTimeoutMs, "Tx Send Timeout") :
        /\ RpcAnswer(a)
        /\ LET r == Heard(rpc, a)
           IN  IF a.kind = "value"
               THEN /\ tx' = [tx EXCEPT !.pc = "awaitWait"]
                    /\ rpc' = [r EXCEPT !.waits = @ + 1]
                    /\ ret' = NoRet
                    /\ slept' = 0
               ELSE IF a.kind = "timeout"
               THEN /\ tx' = [tx EXCEPT !.pc = "pending"]
                    /\ rpc' = r
                    /\ ret' = NoRet
                    /\ slept' = 0
               ELSE TxCatch(tx, r, a)
    /\ UNCHANGED <<stack, net, axios, token, now, harness, loopVars>>

\* the broadcast (or its 30 s timer) has answered
TxSent ==
    /\ TxAt("awaitSend")
    /\ \E a \in runWithTimeout("sendTransaction", SendTimeoutMs, "Tx Send Timeout") :
        /\ RpcAnswer(a)
        /\ LET r == Heard(rpc, a)
           IN  IF a.kind = "value"
               THEN /\ tx' = [tx EXCEPT !.pc = "awaitWait"]
                    /\ rpc' = [r EXCEPT !.waits = @ + 1]
                    /\ ret' = NoRet
                    /\ slept' = 0
               ELSE TxCatch(tx, r, a)
    /\ UNCHANGED <<stack, net, axios, token, now, harness, loopVars>>

\* the confirmation step without the check of receipt.status
TxWaitedIgnoresStatus ==
    /\ TxAt("awaitWait")
    /\ \E a \in runWithTimeout("wait", WaitTimeoutMs, "Tx Wait Timeout") :
        /\ RpcAnswer(a)
        /\ LET r == Heard(rpc, a)
           IN  IF a.kind = "value"
               THEN TxReturn(tx, r, TRUE)
               ELSE TxCatch(tx, r, a)
    /\ UNCHANGED <<stack, net, axios, token, now, harness, loopVars>>

\* tx.wait() (or its 60 s timer) has answered
TxWaited ==
    /\ TxAt("awaitWait")
    /\ \E a \in runWithTimeout("wait", WaitTimeoutMs, "Tx Wait Timeout") :
        /\ RpcAnswer(a)
        /\ LET r == Heard(rpc, a)
           IN  IF a.kind = "value"
               THEN TxReturn(tx, r, a.status = 1)
               ELSE TxCatch(tx, r, a)
    /\ UNCHANGED <<stack, net, axios, token, now, harness, loopVars>>

\* sleep(5000) is over: next attempt
TxSlept ==
    /\ TxAt("awaitSleep")
    /\ TxAttempt([tx EXCEPT !.i = @ + 1], rpc)
    /\ UNCHANGED <<stack, net, axios, token, faults, now, harness, loopVars>>

\* an operation that lost its race settles; nobody awaits it
RpcLate ==
    /\ \/ /\ rpc.lost > rpc.lostSends
          /\ rpc' = [rpc EXCEPT !.lost = @ - 1]
       \/ /\ rpc.lostSends > 0
          /\ \E took \in BOOLEAN :
                rpc' = [rpc EXCEPT !.lost = @ - 1, !.lostSends = @ - 1,
                                   !.accepted = IF took THEN @ + 1 ELSE @,
                                   !.unwatched = IF took THEN @ + 1 ELSE @]
    /\ UNCHANGED <<stack, ret, net, axios, token, faults, now, slept, tx, harness, loopVars>>

\* the last answer of the node reports a revert: a revert error at estimation,
\* broadcast or confirmation, or a receipt whose status is not 1
RevertReported ==
    \/ rpc.answer.kind = "error" /\ isRevert(rpc.answer)
    \/ rpc.answer.kind = "value" /\ rpc.answer.op = "wait" /\ rpc.answer.status # 1

\* the chain includes a transaction whose confirmation nobody awaits (any more)
ChainMined ==
    /\ rpc.unwatched > 0
    /\ \E ok \in BOOLEAN :
          rpc' = [rpc EXCEPT !.unwatched = @ - 1, !.mined = IF ok THEN @ + 1 ELSE @]
    /\ UNCHANGED <<stack, ret, net, axios, token, faults, now, slept, tx, harness, loopVars>>

TxStep == TxEstimated \/ TxSent \/ TxWaited \/ TxSlept \/ RpcLate \/ ChainMined

----------------------------------------------------------------------------
(* WalletDB *)

\* no call has been issued yet
NoTraffic ==
    [uuid |-> 0, tids |-> {}, called |-> {}, tokens |-> 0,
     last |-> [url |-> "", tid |-> <<0, 0>>, auth |-> 0, gen |-> 0]]

Idle == [pc |-> "idle", op |-> "", res |-> NoRet]

Accounts == 1..NumAccounts

\* client.address: the checksummed address of accounts[i]
Addresses ==
    << <<"0", "x", "A", "1", "b", "2">>, <<"0", "x", "C", "3", "d", "4">>,
       <<"0", "x", "E", "5", "f", "6">>, <<"0", "x", "A", "7", "B", "8">> >>

\* String.prototype.toLowerCase on one character of an address
LowerChar(c) ==
    CASE c = "A" -> "a" [] c = "B" -> "b" [] c = "C" -> "c"
      [] c = "D" -> "d" [] c = "E" -> "e" [] c = "F" -> "f"
      [] c = "X" -> "x" [] OTHER -> c

\* getNextRunTime without its toLowerCase()
getNextRunTimeExactKey(data, address) ==
    IF address \in DOMAIN data THEN data[address] ELSE 0

toLowerCase(a) == [k \in 1..Len(a) |-> LowerChar(a[k])]

Keys == { toLowerCase(Addresses[i]) : i \in Accounts }
EmptyData == [k \in {} |-> 0]
\* this.data after JSON.parse of the text "null": every property access throws
NullData == [k \in {<<"n", "u", "l", "l">>} |-> -1]

\* this.data[address.toLowerCase()] || 0
getNextRunTime(data, address) ==
    IF toLowerCase(address) \in DOMAIN data THEN data[toLowerCase(address)] ELSE 0

\* this.data[address.toLowerCase()] = nextTime; this.save(): the snapshot
\* JSON.stringify(this.data) is taken at once, the write completes later
updateNextRunTime(d, address, nextTime) ==
    LET data == Spread(d.data, [k \in {toLowerCase(address)} |-> nextTime])
    IN  [d EXCEPT !.data = data, !.writes = @ \cup {data}]

\* new WalletDB(): this.data = {}; load() runs up to its readFile
NewWalletDB ==
    [data |-> EmptyData, loading |-> file.kind # "missing", writes |-> {}]

\* main() is suspended and about to run on: the completions of load() and save()
\* touch only the store, which nothing but main() reads, so their order matters
\* only relative to the steps of main()
MainSuspended ==
    \/ mainv.pc \in {"awaitPause", "awaitCycle"}
    \/ mainv.pc = "off" /\ harness.pc = "store"
    \/ mainv.pc = "awaitTasks" /\ task.pc = "done"

\* load(): readFile has completed; JSON.parse, or {} when it throws
LoadDone ==
    /\ MainSuspended
    /\ db.loading
    /\ db' = [db EXCEPT !.loading = FALSE,
                        !.data = IF file.kind = "ok" THEN file.data
                                 ELSE IF file.kind = "null" THEN NullData
                                 ELSE EmptyData]
    /\ UNCHANGED <<stack, ret, net, axios, token, faults, now, slept, tx, rpc, harness,
                   task, mainv, summary, file, config, accounts>>

\* save(): one writeFile has completed, or failed (the error is swallowed)
SaveDone ==
    /\ MainSuspended
    /\ \E w \in db.writes :
        /\ db' = [db EXCEPT !.writes = @ \ {w}]
        /\ \/ file' = [kind |-> "ok", data |-> w]
           \/ file' = file
    /\ UNCHANGED <<stack, ret, net, axios, token, faults, now, slept, tx, rpc, harness,
                   task, mainv, summary, config, accounts>>

----------------------------------------------------------------------------
(* runDailyTasks *)

NoAction == [create |-> "none", id |-> 0, chain |-> "none"]
NoResult == [success |-> FALSE, status |-> "", points |-> "-"]
\* login, request and agent record how the steps of the run ended
NoTask ==
    [pc |-> "idle", login |-> "none", isRequestDone |-> FALSE, isAgentDone |-> FALSE,
     pts |-> "none", performed |-> 0, request |-> NoAction, agent |-> NoAction,
     result |-> NoResult]

TaskAt(pc) == task.pc = pc /\ stack = <<>> /\ ~TxActive /\ ret.k # "none"

\* return { success, points, status } to main()
TaskReturn(f, result) ==
    /\ task' = [f EXCEPT !.pc = "done", !.result = result]
    /\ stack' = <<>>
    /\ ret' = NoRet
    /\ UNCHANGED <<net, axios, token, slept, tx, rpc>>

\* catch (e) { return { success: false, status: 'Error' } }
TaskError(f) == TaskReturn(f, [NoResult EXCEPT !.status = "Error"])

\* await this.requestWithRetry('post', url, ...) from runDailyTasks
TaskRequest(f, pc, url) ==
    /\ task' = [f EXCEPT !.pc = pc]
    /\ stack' = <<RwrFrame(url, NoOptions)>>
    /\ net' = IssueCall(net, axios, url, NoOptions)
    /\ ret' = NoRet
    /\ UNCHANGED <<axios, token, slept, tx, rpc>>

\* await sleep(2000) before the on-chain submission
TaskPause(f, pc) ==
    /\ task' = [f EXCEPT !.pc = pc]
    /\ slept' = ActionPauseMs
    /\ stack' = <<>>
    /\ ret' = NoRet
    /\ UNCHANGED <<net, axios, token, tx, rpc>>

\* await this.sendRawTransaction(selector, types, [id, ...])
TaskSubmit(f, pc, id) ==
    /\ task' = [f EXCEPT !.pc = pc]
    /\ sendRawTransaction(id, TRUE)
    /\ stack' = <<>>
    /\ UNCHANGED <<net, axios, token>>

\* res.data.data.id of a create answer: the server numbers the objects it
\* creates in this run; an answer without data.id carries none (0)
CreatedId(f, a) ==
    IF a.hasData /\ a.x THEN (IF f.request.id > 0 THEN 2 ELSE 1) ELSE 0

\* the score: from taskData.message; '?' when the extraction throws
Points(pts) == IF pts = "text" THEN "150" ELSE IF pts = "other" THEN "?" ELSE "-"

\* the status line that wants both actions performed
FinishCountsBoth(f) ==
    TaskReturn(f, [success |-> TRUE, points |-> Points(f.pts),
                   status |-> IF f.performed > 1 THEN "Work Done" ELSE "Already Done"])

\* the end of the run without the inner try around the score extraction
FinishWithoutInnerTry(f) ==
    IF f.pts = "other"
    THEN TaskError(f)
    ELSE TaskReturn(f, [success |-> TRUE, points |-> Points(f.pts),
                        status |-> IF f.performed > 0 THEN "Work Done" ELSE "Already Done"])

\* return { success: true, points, status: performed > 0 ? 'Work Done' : 'Already Done' }
Finish(f) ==
    TaskReturn(f, [success |-> TRUE, points |-> Points(f.pts),
                   status |-> IF f.performed > 0 THEN "Work Done" ELSE "Already Done"])

\* 2. Create Agent
AgentPhase(f) ==
    IF ~f.isAgentDone
    THEN TaskRequest(f, "awaitCreateAgent", "createRepositories")
    ELSE Finish(f)

\* the request action without its if (!isRequestDone)
RequestPhaseIgnoresStatus(f) ==
    TaskRequest(f, "awaitCreateRequest", "createRequest")

\* 1. Create Request
RequestPhase(f) ==
    IF ~f.isRequestDone
    THEN TaskRequest(f, "awaitCreateRequest", "createRequest")
    ELSE AgentPhase(f)

\* how the submission that just returned ended
ChainOutcome ==
    IF ret.v.b THEN "ok"
    ELSE IF RevertReported /\ rpc.answer.op = "estimateGas" THEN "simulatedRevert"
    ELSE IF RevertReported /\ rpc.answer.op = "sendTransaction" THEN "broadcastRevert"
    ELSE IF RevertReported THEN "confirmedRevert"
    ELSE "failed"

\* runDailyTasks without its if (!await this.login()) return
TaskLoggedInIgnoresResult ==
    /\ TaskAt("awaitLogin")
    /\ TaskRequest([task EXCEPT !.login = IF ret.v.b THEN "ok"
                                          ELSE IF ret.v.code # 0 THEN "code" ELSE "other"],
                   "awaitStatus", "verifyDailyTask")
    /\ UNCHANGED <<faults, now, harness, mainv, summary, db, file, config, accounts>>

\* login() has returned
TaskLoggedIn ==
    /\ TaskAt("awaitLogin")
    /\ IF ret.v.b
       THEN TaskRequest([task EXCEPT !.login = "ok"], "awaitStatus", "verifyDailyTask")
       ELSE TaskReturn([task EXCEPT !.login = IF ret.v.code # 0 THEN "code" ELSE "other"],
                       [NoResult EXCEPT !.status = "Login Failed"])
    /\ UNCHANGED <<faults, now, harness, mainv, summary, db, file, config, accounts>>

\* the status call has completed
TaskStatus ==
    /\ TaskAt("awaitStatus")
    /\ IF ret.k = "return" /\ ret.v.hasBody
       THEN RequestPhase([task EXCEPT !.isRequestDone = ret.v.hasData /\ ret.v.x,
                                       !.isAgentDone = ret.v.hasData /\ ret.v.y,
                                       !.pts = ret.v.pts])
       ELSE TaskError(task)
    /\ UNCHANGED <<faults, now, harness, mainv, summary, db, file, config, accounts>>

\* the request action without the data?.id part of its test
TaskCreatedRequestIgnoresId ==
    /\ TaskAt("awaitCreateRequest")
    /\ IF ret.k = "return" /\ ret.v.hasBody
       THEN IF ret.v.code = 0
            THEN TaskPause([task EXCEPT !.request.create = "ok",
                                        !.request.id = CreatedId(task, ret.v)],
                           "awaitPauseRequest")
            ELSE AgentPhase([task EXCEPT !.request.create = "failed"])
       ELSE TaskError([task EXCEPT !.request.create = "failed"])
    /\ UNCHANGED <<faults, now, harness, mainv, summary, db, file, config, accounts>>

\* the create-request call has completed
TaskCreatedRequest ==
    /\ TaskAt("awaitCreateRequest")
    /\ IF ret.k = "return" /\ ret.v.hasBody
       THEN IF ret.v.code = 0 /\ ret.v.hasData /\ ret.v.x
            THEN TaskPause([task EXCEPT !.request.create = "ok",
                                        !.request.id = CreatedId(task, ret.v)],
                           "awaitPauseRequest")
            ELSE AgentPhase([task EXCEPT !.request.create = "failed"])
       ELSE TaskError([task EXCEPT !.request.create = "failed"])
    /\ UNCHANGED <<faults, now, harness, mainv, summary, db, file, config, accounts>>

TaskPausedRequest ==
    /\ task.pc = "awaitPauseRequest"
    /\ TaskSubmit(task, "awaitSubmitRequest", task.request.id)
    /\ UNCHANGED <<faults, now, harness, mainv, summary, db, file, config, accounts>>

\* the request action counted whatever its submission returned
TaskSubmittedRequestCountsAlways ==
    /\ TaskAt("awaitSubmitRequest")
    /\ AgentPhase([task EXCEPT !.request.chain = ChainOutcome,
                               !.performed = @ + 1])
    /\ UNCHANGED <<faults, now, harness, mainv, summary, db, file, config, accounts>>

\* the submission of the request has returned
TaskSubmittedRequest ==
    /\ TaskAt("awaitSubmitRequest")
    /\ AgentPhase([task EXCEPT !.request.chain = ChainOutcome,
                               !.performed = IF ret.v.b THEN @ + 1 ELSE @])
    /\ UNCHANGED <<faults, now, harness, mainv, summary, db, file, config, accounts>>

\* the create-agent call has completed
TaskCreatedAgent ==
    /\ TaskAt("awaitCreateAgent")
    /\ IF ret.k = "return" /\ ret.v.hasBody
       THEN IF ret.v.code = 0 /\ ret.v.hasData /\ ret.v.x
            THEN TaskPause([task EXCEPT !.agent.create = "ok",
                                        !.agent.id = CreatedId(task, ret.v)],
                           "awaitPauseAgent")
            ELSE Finish([task EXCEPT !.agent.create = "failed"])
       ELSE TaskError([task EXCEPT !.agent.create = "failed"])
    /\ UNCHANGED <<faults, now, harness, mainv, summary, db, file, config, accounts>>

TaskPausedAgent ==
    /\ task.pc = "awaitPauseAgent"
    /\ TaskSubmit(task, "awaitSubmitAgent", task.agent.id)
    /\ UNCHANGED <<faults, now, harness, mainv, summary, db, file, config, accounts>>

\* the submission of the agent has returned
TaskSubmittedAgent ==
    /\ TaskAt("awaitSubmitAgent")
    /\ Finish([task EXCEPT !.agent.chain = ChainOutcome,
                           !.performed = IF ret.v.b THEN @ + 1 ELSE @])
    /\ UNCHANGED <<faults, now, harness, mainv, summary, db, file, config, accounts>>

TaskStep ==
    \/ TaskLoggedIn
    \/ TaskStatus
    \/ TaskCreatedRequest
    \/ TaskPausedRequest
    \/ TaskSubmittedRequest
    \/ TaskCreatedAgent
    \/ TaskPausedAgent
    \/ TaskSubmittedAgent

----------------------------------------------------------------------------
(* main *)

Hours(ms) == ms \div CycleSleepMs

Row(i, points, status, next) ==
    [account |-> i, points |-> points, status |-> status, next |-> next]

\* if (Date.now() < nextRun): the account is skipped
Cooling(data, i, t) == t < getNextRunTime(data, Addresses[i])

SkippedRow(data, i) ==
    Row(i, "-", "Skipped (Cooldown)", getNextRunTime(data, Addresses[i]))

\* the first account from i on that is not skipped; NumAccounts + 1 when none is
NextEligible(data, i, t) ==
    IF \E j \in i..NumAccounts : ~Cooling(data, j, t)
    THEN CHOOSE j \in i..NumAccounts :
            /\ ~Cooling(data, j, t)
            /\ \A k \in i..(j - 1) : Cooling(data, k, t)
    ELSE NumAccounts + 1

\* the first account from i on whose client cannot be constructed: new
\* ethers.Wallet(privateKey, provider) throws; NumAccounts + 1 when none is
FirstUnusable(i) ==
    IF \E k \in i..NumAccounts : ~accounts[k].usable
    THEN CHOOSE k \in i..NumAccounts :
            /\ ~accounts[k].usable
            /\ \A m \in i..(k - 1) : accounts[m].usable
    ELSE NumAccounts + 1

\* the for loop whose skipped accounts leave no row
RunFromNoSkippedRows(data, i, rows, cycle) ==
    LET e == NextEligible(data, i, now)
        c == FirstUnusable(i)
        crash == (c <= NumAccounts /\ c <= e) \/ (data = NullData /\ i <= NumAccounts)
        j == IF data = NullData /\ i <= NumAccounts THEN i ELSE IF crash THEN c ELSE e
        skipped == [k \in 1..(j - i) |-> SkippedRow(data, i + k - 1)]
    IN  /\ summary' = rows
        /\ IF crash
           THEN /\ mainv' = [pc |-> "crashed", i |-> j, cycle |-> cycle, wake |-> now]
                /\ slept' = 0
                /\ task' = NoTask
                /\ UNCHANGED <<axios, token, tx, rpc, stack, net>>
           ELSE IF j <= NumAccounts
           THEN /\ mainv' = [pc |-> "awaitTasks", i |-> j, cycle |-> cycle, wake |-> now]
                /\ task' = [NoTask EXCEPT !.pc = "awaitLogin"]
                /\ axios' = [gen |-> 0, auth |-> 0]
                /\ token' = 0
                /\ tx' = NoTx
                /\ rpc' = [NoRpc EXCEPT !.lost = rpc.lost]
                /\ stack' = <<LoginFrame, RwrFrame("loginWallet", NoOptions)>>
                /\ net' = IssueCall(NoTraffic, [gen |-> 0, auth |-> 0], "loginWallet",
                                    NoOptions)
                /\ slept' = 0
           ELSE /\ mainv' = [pc |-> "awaitCycle", i |-> j, cycle |-> cycle,
                             wake |-> now + Hours(CycleSleepMs)]
                /\ slept' = CycleSleepMs
                /\ task' = NoTask
                /\ UNCHANGED <<axios, token, tx, rpc, stack, net>>
        /\ ret' = NoRet

\* the for loop from account i on, up to its next await: every account gets a new
\* client first (a throw of the constructor leaves main(), and the process ends);
\* skipped accounts get their row; the first eligible one starts runDailyTasks()
\* with login(); after the last account the summary is printed and the loop sleeps
RunFrom(data, i, rows, cycle) ==
    LET e == NextEligible(data, i, now)
        c == FirstUnusable(i)
        crash == (c <= NumAccounts /\ c <= e) \/ (data = NullData /\ i <= NumAccounts)
        j == IF data = NullData /\ i <= NumAccounts THEN i ELSE IF crash THEN c ELSE e
        skipped == [k \in 1..(j - i) |-> SkippedRow(data, i + k - 1)]
    IN  /\ summary' = rows \o skipped
        /\ IF crash
           THEN /\ mainv' = [pc |-> "crashed", i |-> j, cycle |-> cycle, wake |-> now]
                /\ slept' = 0
                /\ task' = NoTask
                /\ UNCHANGED <<axios, token, tx, rpc, stack, net>>
           ELSE IF j <= NumAccounts
           THEN /\ mainv' = [pc |-> "awaitTasks", i |-> j, cycle |-> cycle, wake |-> now]
                /\ task' = [NoTask EXCEPT !.pc = "awaitLogin"]
                /\ axios' = [gen |-> 0, auth |-> 0]
                /\ token' = 0
                /\ tx' = NoTx
                /\ rpc' = [NoRpc EXCEPT !.lost = rpc.lost]
                /\ stack' = <<LoginFrame, RwrFrame("loginWallet", NoOptions)>>
                /\ net' = IssueCall(NoTraffic, [gen |-> 0, auth |-> 0], "loginWallet",
                                    NoOptions)
                /\ slept' = 0
           ELSE /\ mainv' = [pc |-> "awaitCycle", i |-> j, cycle |-> cycle,
                             wake |-> now + Hours(CycleSleepMs)]
                /\ slept' = CycleSleepMs
                /\ task' = NoTask
                /\ UNCHANGED <<axios, token, tx, rpc, stack, net>>
        /\ ret' = NoRet

\* the iteration is over: its client is unreachable, only the operations its
\* timers abandoned are still in flight
DropClient ==
    /\ task' = [task EXCEPT !.pc = "handled"]
    /\ net' = NoTraffic
    /\ axios' = [gen |-> 0, auth |-> 0]
    /\ token' = 0
    /\ tx' = NoTx
    /\ rpc' = [NoRpc EXCEPT !.lost = rpc.lost]

\* const db = new WalletDB(); first cycle
MainStart ==
    /\ mainv.pc = "start"
    /\ db' = NewWalletDB
    /\ RunFrom(EmptyData, 1, <<>>, 1)
    /\ UNCHANGED <<faults, now, harness, file, config, accounts>>

\* runDailyTasks() has returned
MainTasksDone ==
    /\ mainv.pc = "awaitTasks"
    /\ task.pc = "done"
    /\ IF task.result.success /\ db.data = NullData
       THEN /\ mainv' = [mainv EXCEPT !.pc = "crashed"]
            /\ slept' = 0
            /\ UNCHANGED <<db, summary>>
       ELSE /\ IF task.result.success
               THEN /\ db' = updateNextRunTime(db, Addresses[mainv.i],
                                               now + config.loopInterval)
                    /\ summary' = Append(summary, Row(mainv.i, task.result.points,
                                                      task.result.status,
                                                      now + config.loopInterval))
               ELSE /\ db' = db
                    /\ summary' = Append(summary, Row(mainv.i, "-", "Failed", -1))
            /\ mainv' = [mainv EXCEPT !.pc = "awaitPause",
                                      !.wake = now + Hours(AccountPauseMs)]
            /\ slept' = AccountPauseMs
    /\ DropClient
    /\ UNCHANGED <<stack, ret, faults, now, harness, file, config, accounts>>

\* sleep(2000) between accounts is over
MainPaused ==
    /\ mainv.pc = "awaitPause"
    /\ now >= mainv.wake
    /\ RunFrom(db.data, mainv.i + 1, summary, mainv.cycle)
    /\ UNCHANGED <<faults, now, harness, db, file, config, accounts>>

\* sleep(60 * 60 * 1000) is over: next cycle
MainCycleSlept ==
    /\ mainv.pc = "awaitCycle"
    /\ now >= mainv.wake
    /\ mainv.cycle < MaxCycles
    /\ RunFrom(db.data, 1, <<>>, mainv.cycle + 1)
    /\ UNCHANGED <<faults, now, harness, db, file, config, accounts>>

\* an hour passes while the loop sleeps; the file operations started before
\* have completed by then
Tick ==
    /\ mainv.pc = "awaitCycle"
    /\ now < MaxTime
    /\ ~db.loading /\ db.writes = {}
    /\ now' = now + 1
    /\ UNCHANGED <<stack, ret, net, axios, token, faults, slept, tx, rpc, harness, task,
                   mainv, summary, db, file, config, accounts>>

MainStep == MainStart \/ MainTasksDone \/ MainPaused \/ MainCycleSlept

\* accounts.json: every private key is usable, or the last one is not
AccountFiles ==
    { [i \in Accounts |-> [usable |-> i \in u]] : u \in {Accounts, Accounts \ {NumAccounts}} }

\* wallet_db.json as an earlier run can have left it; loopInterval in hours
Intervals == {2}
StoredTimes == {0, 2}

\* the process has read accounts.json and is about to construct the store
LoopStart ==
    /\ stack = <<>>
    /\ ret = NoRet
    /\ net = NoTraffic
    /\ axios = [gen |-> 0, auth |-> 0]
    /\ token = 0
    /\ now = 0
    /\ slept = 0
    /\ tx = NoTx
    /\ rpc = NoRpc
    /\ harness = [Idle EXCEPT !.pc = "off"]
    /\ task = NoTask
    /\ mainv = [pc |-> "start", i |-> 0, cycle |-> 0, wake |-> 0]
    /\ summary = <<>>
    /\ db = [data |-> EmptyData, loading |-> FALSE, writes |-> {}]
    /\ \/ file = [kind |-> "missing", data |-> EmptyData]
       \/ file = [kind |-> "corrupt", data |-> EmptyData]
       \/ file = [kind |-> "null", data |-> EmptyData]
       \/ \E d \in [Keys -> StoredTimes] : file = [kind |-> "ok", data |-> d]
    /\ \E h \in Intervals : config = [loopInterval |-> h]
    /\ accounts \in AccountFiles

\* the whole loop, with MaxRunFaults failures of the servers, of any kinds
Init ==
    /\ LoopStart
    /\ faults = [auth |-> MaxRunFaults, plain |-> MaxRunFaults, rpc |-> MaxRunFaults,
                 total |-> MaxRunFaults, heard |-> NoVal]

Next == MainStep \/ TaskStep \/ ClientStep \/ TxStep \/ LoadDone \/ SaveDone \/ Tick

Spec == Init /\ [][Next]_vars

\* the loop up to the pause after its first account
NextRun ==
    MainStart \/ MainTasksDone \/ TaskStep \/ ClientStep \/ TxStep \/ LoadDone \/ SaveDone

SpecRun == Init /\ [][NextRun]_vars

\* what runDailyTasks() can return: its four return statements
TaskResults ==
    { [NoResult EXCEPT !.status = "Login Failed"], [NoResult EXCEPT !.status = "Error"] }
    \cup { [success |-> TRUE, points |-> p, status |-> st] :
             p \in {"-", "?", "150"}, st \in {"Work Done", "Already Done"} }

\* await client.runDailyTasks(), seen from main(): it returns one of its results
TasksReturned ==
    /\ mainv.pc = "awaitTasks"
    /\ task.pc = "awaitLogin"
    /\ \E result \in TaskResults : TaskReturn(task, result)
    /\ UNCHANGED <<faults, now, harness, mainv, summary, db, file, config, accounts>>

\* the loop of main() around runDailyTasks()
NextLoop == MainStep \/ TasksReturned \/ LoadDone \/ SaveDone \/ Tick

SpecLoop == Init /\ [][NextLoop]_vars

----------------------------------------------------------------------------
(* One client operation on a fresh or logged-in session *)

LoopIdle ==
    /\ task = NoTask
    /\ mainv = [pc |-> "off", i |-> 0, cycle |-> 0, wake |-> 0]
    /\ summary = <<>>
    /\ db = [data |-> EmptyData, loading |-> FALSE, writes |-> {}]
    /\ file = [kind |-> "missing", data |-> EmptyData]
    /\ config = [loopInterval |-> 0]
    /\ accounts = [i \in Accounts |-> [usable |-> TRUE]]

HarnessUrls == {"createRequest"}

InitReq ==
    /\ stack = <<>>
    /\ ret = NoRet
    /\ net = NoTraffic
    /\ axios = [gen |-> 0, auth |-> 0]
    /\ token = 0
    /\ faults = [auth |-> MaxAuthFaults, plain |-> MaxPlainFaults, rpc |-> 0,
                 total |-> MaxAuthFaults + MaxPlainFaults, heard |-> NoVal]
    /\ now = 0
    /\ slept = 0
    /\ tx = NoTx
    /\ rpc = NoRpc
    /\ harness = Idle
    /\ LoopIdle

HarnessRequest ==
    /\ harness.pc = "idle"
    /\ \E url \in HarnessUrls, options \in OptionSet :
        /\ stack' = <<RwrFrame(url, options)>>
        /\ net' = IssueCall(net, axios, url, options)
    /\ harness' = [harness EXCEPT !.pc = "called", !.op = "requestWithRetry"]
    /\ UNCHANGED <<ret, axios, token, faults, now, slept, tx, rpc, loopVars>>

HarnessLogin ==
    /\ harness.pc = "idle"
    /\ stack' = <<LoginFrame, RwrFrame("loginWallet", NoOptions)>>
    /\ net' = IssueCall(net, axios, "loginWallet", NoOptions)
    /\ harness' = [harness EXCEPT !.pc = "called", !.op = "login"]
    /\ UNCHANGED <<ret, axios, token, faults, now, slept, tx, rpc, loopVars>>

HarnessDone ==
    /\ harness.pc = "called"
    /\ stack = <<>>
    /\ ~TxActive
    /\ ret.k # "none"
    /\ harness' = [harness EXCEPT !.pc = "done", !.res = ret]
    /\ ret' = NoRet
    /\ UNCHANGED <<stack, net, axios, token, faults, now, slept, tx, rpc, loopVars>>

NextReq == HarnessRequest \/ HarnessLogin \/ HarnessDone \/ ClientStep

SpecReq == InitReq /\ [][NextReq]_vars

\* the same operations against a server that fails often enough to exhaust the
\* attempts of a request
InitRetry ==
    /\ stack = <<>>
    /\ ret = NoRet
    /\ net = NoTraffic
    /\ axios = [gen |-> 0, auth |-> 0]
    /\ token = 0
    /\ faults = [auth |-> MaxRetryAuthFaults, plain |-> MaxRetryFaults, rpc |-> 0,
                 total |-> MaxRetryFaults, heard |-> NoVal]
    /\ now = 0
    /\ slept = 0
    /\ tx = NoTx
    /\ rpc = NoRpc
    /\ harness = Idle
    /\ LoopIdle

SpecRetry == InitRetry /\ [][NextReq]_vars

----------------------------------------------------------------------------
(* One chain submission against a node that may revert, fail or hang *)

InitTx ==
    /\ stack = <<>>
    /\ ret = NoRet
    /\ net = NoTraffic
    /\ axios = [gen |-> 0, auth |-> 0]
    /\ token = 0
    /\ faults = [auth |-> 0, plain |-> 0, rpc |-> MaxRpcFaults, total |-> MaxRpcFaults,
                 heard |-> NoVal]
    /\ now = 0
    /\ slept = 0
    /\ tx = NoTx
    /\ rpc = NoRpc
    /\ harness = Idle
    /\ LoopIdle

HarnessSubmit ==
    /\ harness.pc = "idle"
    /\ \E encodable \in BOOLEAN : sendRawTransaction(1, encodable)
    /\ harness' = [harness EXCEPT !.pc = "called", !.op = "sendRawTransaction"]
    /\ UNCHANGED <<stack, net, axios, token, faults, now, loopVars>>

NextTx == HarnessSubmit \/ HarnessDone \/ TxStep

SpecTx == InitTx /\ [][NextTx]_vars

\* one submission against a node that may fail or hang at every stage of every
\* attempt; timers and sleeps that are pending do fire
InitHang ==
    /\ stack = <<>>
    /\ ret = NoRet
    /\ net = NoTraffic
    /\ axios = [gen |-> 0, auth |-> 0]
    /\ token = 0
    /\ faults = [auth |-> 0, plain |-> 0, rpc |-> MaxHangFaults, total |-> MaxHangFaults,
                 heard |-> NoVal]
    /\ now = 0
    /\ slept = 0
    /\ tx = NoTx
    /\ rpc = NoRpc
    /\ harness = Idle
    /\ LoopIdle

SpecHang ==
    /\ InitHang
    /\ [][NextTx]_vars
    /\ WF_vars(TxEstimated) /\ WF_vars(TxSent) /\ WF_vars(TxWaited) /\ WF_vars(TxSlept)

----------------------------------------------------------------------------
(* Claims about sendRawTransaction, under SpecTx *)

\* C5: once a simulated or confirmed revert is reported, the submission has
\* returned false, with no estimation, broadcast or wait after the report.
C5_RevertIsTerminal ==
    RevertReported => (tx.pc = "done" /\ tx.result = FALSE /\ ret # Returned(Bool(TRUE)))

\* a revert is reported at each stage while retry attempts remain
C5_Witness ==
    /\ RevertReported
    /\ rpc.answer.op = "sendTransaction"
    /\ tx.i < TxRetries - 1
    /\ rpc.sends = tx.i + 1

\* C7: when the 10 s timer of the gas estimation wins, the same attempt goes on
\* to broadcast with a gas limit of exactly 300,000.
C7_EstimateTimeoutFallsBack ==
    [][ ( /\ TxAt("awaitEstimate")
          /\ rpc'.answer.op = "estimateGas"
          /\ rpc'.answer.kind = "timeout"
          /\ rpc'.lost = rpc.lost + 1 )
        => ( /\ tx'.pc = "awaitSend"
             /\ tx'.i = tx.i
             /\ tx'.gasLimit = 300000
             /\ rpc'.gas = 300000
             /\ rpc'.sends = rpc.sends + 1
             /\ rpc'.estimates = rpc.estimates ) ]_vars

\* the estimation timed out in a retry attempt and the broadcast is under way
C7_Witness ==
    /\ tx.pc = "awaitSend"
    /\ rpc.answer.op = "estimateGas"
    /\ rpc.answer.kind = "timeout"
    /\ rpc.answer.gas = EstimateTimeoutMs
    /\ tx.i > 0

----------------------------------------------------------------------------
(* Claims about requestWithRetry and login, under SpecReq *)

RwrFrames == {k \in 1..Len(stack) : stack[k].fn = "requestWithRetry"}

\* C2: during one call of requestWithRetry, login() is invoked at most once.
C2_LoginAtMostOncePerRequest == \A k \in RwrFrames : stack[k].logins <= 1

\* C3: when the call reissued after a successful re-authentication is answered by
\* another session-expiry signal (sentinel message, 401 or 403), requestWithRetry
\* throws: it neither returns that answer nor re-authenticates again.
C3_PersistentExpiryIsHardFailure ==
    [][ ( /\ stack # <<>>
          /\ Top.fn = "requestWithRetry"
          /\ Top.pc \in {"awaitReissueTry", "awaitReissueCatch"}
          /\ faults'.auth < faults.auth )
        => (stack' = Pop /\ ret'.k = "throw") ]_vars

\* C4: the mutual calls requestWithRetry -> login -> requestWithRetry do not nest
\* without bound: the nesting of login() stays below the depth the model allows.
C4_LoginNestingBounded == LoginDepth < MaxLoginDepth

\* C6: every call carries a correlation id that no earlier call of the session
\* carried, and never the tid of the per-call options.
C6_FreshTidOnEveryCall ==
    /\ Cardinality(net.tids) = net.uuid
    /\ CallerTid \notin net.tids

\* a request whose options carry a tid has been retried and reissued after a re-login
C6_Witness ==
    /\ stack # <<>>
    /\ Top.fn = "requestWithRetry"
    /\ Top.pc = "awaitReissueTry"
    /\ Top.i > 0
    /\ "tid" \in DOMAIN Top.options.headers
    /\ net.uuid >= 5

----------------------------------------------------------------------------
(* The run loop: cooldown, outcomes *)

\* the entry of account i in the cooldown store: the persisted one while the
\* load started by the constructor has not delivered it yet
StoreEntry(i) ==
    IF db.loading /\ file.kind = "ok"
    THEN getNextRunTime(file.data, Addresses[i])
    ELSE getNextRunTime(db.data, Addresses[i])

LastRow == summary[Len(summary)]
NoChainTraffic == tx = NoTx /\ rpc.estimates = 0 /\ rpc.sends = 0 /\ rpc.waits = 0

\* C1: an account whose cooldown-store entry T, persisted by an earlier process run
\* or set in this one, is later than the current time when its turn comes is
\* skipped: runDailyTasks is never started for it.
C1_FutureCooldownIsSkipped ==
    (mainv.pc = "awaitTasks" /\ task.pc # "done") => StoreEntry(mainv.i) <= now

\* the status check reported both actions not done, one action was created and
\* confirmed on chain, the submission of the other ended in a confirmed revert
C8_Scenario ==
    /\ task.login = "ok" /\ ~task.isRequestDone /\ ~task.isAgentDone
    /\ \/ /\ task.request.create = "ok" /\ task.request.chain = "ok"
          /\ task.agent.chain = "confirmedRevert"
       \/ /\ task.agent.create = "ok" /\ task.agent.chain = "ok"
          /\ task.request.chain = "confirmedRevert"

C9_LoginFailureEndsTheRun ==
    [][ /\ task'.login \in {"code", "other"}
           => /\ task'.pc \in {"done", "handled"}
              /\ task'.result = [success |-> FALSE, status |-> "Login Failed", points |-> "-"]
              /\ net'.called \subseteq {"loginWallet", "authWallet"}
              /\ tx' = NoTx /\ rpc'.estimates = 0 /\ rpc'.sends = 0 /\ rpc'.waits = 0
        /\ (task.login \in {"code", "other"} /\ mainv.pc = "awaitTasks" /\ mainv'.pc = "awaitPause")
           => /\ db' = db
              /\ summary' = Append(summary, Row(mainv.i, "-", "Failed", -1)) ]_vars

C9_Witness ==
    /\ task.login = "code" /\ task.pc = "handled" /\ mainv.pc = "awaitPause"
    /\ LastRow.status = "Failed"
    /\ db.writes = {}

\* C10: when the status check reports both actions done, no create-request call, no
\* create-agent call and no chain submission is made, and runDailyTasks returns
\* success with status 'Already Done'.
C10_BothDoneIsAlreadyDone ==
    (task.isRequestDone /\ task.isAgentDone)
    => /\ task.pc \in {"done", "handled"}
       /\ task.result.success /\ task.result.status = "Already Done"
       /\ task.performed = 0
       /\ net.called \cap {"createRequest", "createRepositories"} = {}
       /\ NoChainTraffic

C10_Witness ==
    /\ task.isRequestDone /\ task.isAgentDone /\ task.pc = "done"
    /\ "verifyDailyTask" \in net.called

----------------------------------------------------------------------------
(* Re-authentication inside requestWithRetry, under SpecReq *)

AtRwr(pcs) == stack # <<>> /\ Top.fn = "requestWithRetry" /\ Top.pc \in pcs

\* C11: when the login() that requestWithRetry started after a session-expiry
\* signal returns false, requestWithRetry throws at once: no backoff, no rebuilt
\* transport, no further call.
C11_FailedReloginFailsAtOnce ==
    [][ (AtRwr({"awaitLoginTry", "awaitLoginCatch"}) /\ ret.k = "return" /\ ~ret.v.b
         /\ stack' # stack)
        => (stack' = Pop /\ ret'.k = "throw" /\ slept' = 0 /\ axios' = axios /\ net' = net) ]_vars

\* C12: the call reissued after a successful re-authentication ends requestWithRetry:
\* its response is returned or its error thrown, with no backoff, re-authentication
\* or further call.
C12_ReissueOutcomeIsFinal ==
    [][ (AtRwr({"awaitReissueTry", "awaitReissueCatch"}) /\ stack' # stack)
        => (stack' = Pop /\ ret'.k \in {"return", "throw"} /\ slept' = 0 /\ net' = net) ]_vars


----------------------------------------------------------------------------
(* The retry budget of requestWithRetry, under SpecRetry *)

\* C13: a requestWithRetry call never goes beyond its 5th attempt; when the 5th
\* attempt fails with an error that is not a 401/403 the call ends at once by
\* throwing exactly that error; and whenever a call ends it either returns a
\* response or throws an error.
C13_FiveAttemptsThenLastError ==
    [][ /\ \A k \in 1..Len(stack') :
             stack'[k].fn = "requestWithRetry" => stack'[k].i <= Retries - 1
        /\ ( AtRwr({"awaitCall"}) /\ Top.i = Retries - 1 /\ stack' # stack
              /\ faults'.heard.kind = "err" /\ ~isAuthError(faults'.heard) )
           => (stack' = Pop /\ ret' = Thrown(faults'.heard) /\ slept' = 0)
        /\ ( stack # <<>> /\ Top.fn = "requestWithRetry" /\ stack' = Pop )
           => \/ ret'.k = "return" /\ ret'.v.kind = "res"
              \/ ret'.k = "throw" /\ ret'.v.kind = "err" ]_vars

\* five attempts failed, none with 401/403 and none followed by a login, and the
\* caller received the error of the fifth
C13_Witness ==
    /\ harness.pc = "done" /\ harness.op = "requestWithRetry"
    /\ harness.res = Thrown(faults.heard)
    /\ faults.heard = Err(500, "ERR_BAD_RESPONSE", "Request failed with status code 500")
    /\ faults.plain = MaxRetryFaults - Retries
    /\ net.uuid = Retries
    /\ token = 0


\* C14: whenever a requestWithRetry call is waiting before a retry, the attempt
\* that just failed is one of the first four and the wait is its number (counted
\* from 1) times 3000 ms, so the waits are 3000, 6000, 9000 and 12000 ms; the
\* fifth attempt is never followed by a wait, and nothing else in a client
\* operation waits.
C14_LinearBackoff ==
    /\ \A k \in RwrFrames :
         stack[k].pc = "awaitSleep"
         => /\ k = Len(stack)
            /\ stack[k].i + 1 \in 1..4
            /\ slept = (stack[k].i + 1) * 3000
    /\ ~AtRwr({"awaitSleep"}) => slept = 0

\* the wait after the fourth failed attempt
C14_Witness == AtRwr({"awaitSleep"}) /\ Top.i = 3 /\ slept = 12000 /\ Len(stack) = 1


\* C15: the step that ends a backoff and starts the next attempt replaces the
\* transport object by a new one exactly when the error of the failed attempt
\* had no response, or the code ECONNRESET or ETIMEDOUT, or a proxy-connection
\* message; after any other error the transport object is the same as before;
\* and no other step of a client operation replaces the transport object.
C15_RebuildOnlyAfterNetworkError ==
    [][ /\ (AtRwr({"awaitSleep"}) /\ stack' # stack)
           => IF \/ Top.err.status = 0
                 \/ Top.err.ecode \in {"ECONNRESET", "ETIMEDOUT"}
                 \/ Top.err.message = "Proxy connection ended before receiving CONNECT response"
              THEN axios'.gen = axios.gen + 1 /\ net'.last.gen = axios'.gen
              ELSE axios' = axios /\ net'.last.gen = axios.gen
        /\ (stack # <<>> /\ ~AtRwr({"awaitSleep"})) => axios'.gen = axios.gen ]_vars

\* third attempt of a call without any login: the first failure was a network
\* error (transport rebuilt once), the second a 500 (transport kept)
C15_Witness ==
    /\ AtRwr({"awaitCall"}) /\ Len(stack) = 1 /\ Top.i = 2 /\ token = 0
    /\ Top.err.status = 500
    /\ axios.gen = 1 /\ net.last.gen = 1


----------------------------------------------------------------------------
(* The credential on the wire and the calls of login(), under SpecRetry *)

\* C16: once a login has succeeded, every call issued afterwards carries the
\* bearer token obtained last, also a call issued on a rebuilt transport.
C16_CallsCarryLatestToken ==
    [][ (net.tokens > 0 /\ net'.uuid # net.uuid) => net'.last.auth = token' ]_vars


\* C17: while a login() is in progress, the request it is waiting for (nonce or
\* token exchange) is the first and only one sent for that step (first attempt,
\* not a reissue), and no other login() runs inside it.
C17_LoginSendsEachRequestOnce ==
    \A k \in 1..Len(stack) :
        stack[k].fn = "login"
        => /\ \A j \in (k + 1)..Len(stack) : stack[j].fn # "login"
           /\ k < Len(stack)
              => /\ stack[k + 1].i = 0
                 /\ stack[k + 1].pc \notin {"awaitReissueTry", "awaitReissueCatch"}


----------------------------------------------------------------------------
(* Gas limit, attempts and result of sendRawTransaction, under SpecTx *)

\* C18: when the gas estimation answers with a value, the same attempt
\* broadcasts with gas limit floor(value x 120 / 100); when it fails with an
\* error that is neither the estimation timeout nor a revert, the same attempt
\* broadcasts with a gas limit of exactly 200,000.
C18_GasLimitOfBroadcast ==
    [][ (tx.pc = "awaitEstimate" /\ tx' # tx)
        => LET a == rpc'.answer
               broadcast(g) == /\ tx'.pc = "awaitSend"
                               /\ tx'.i = tx.i
                               /\ tx'.gasLimit = g /\ rpc'.gas = g
                               /\ rpc'.sends = rpc.sends + 1
                               /\ rpc'.estimates = rpc.estimates
           IN  /\ a.op = "estimateGas"
               /\ a.kind = "value"
                  => /\ broadcast(tx'.gasLimit)
                     /\ tx'.gasLimit * 100 <= a.gas * 120
                     /\ a.gas * 120 < (tx'.gasLimit + 1) * 100
               /\ (a.kind = "error" /\ ~isRevert(a)) => broadcast(200000) ]_vars

\* an estimate whose 120% is not a whole number has been rounded down
C18_Witness ==
    /\ tx.pc = "awaitSend"
    /\ rpc.answer = RpcVal("estimateGas", 99999, 0)
    /\ tx.gasLimit = 119998 /\ rpc.gas = 119998

\* a retry attempt whose estimation failed with a network error is broadcasting
C18_WitnessFallback ==
    /\ tx.pc = "awaitSend" /\ tx.i > 0
    /\ rpc.answer = RpcErr("estimateGas", "NETWORK_ERROR", "could not detect network")
    /\ tx.gasLimit = FallbackGasLimit /\ rpc.sends = tx.i + 1


\* C19: a submission never goes beyond its 3rd attempt and never throws; when
\* the broadcast or the confirmation of an attempt fails with an error or a
\* timeout that is not a revert, then with attempts left the submission waits
\* 5000 ms, and with none left it returns false; the step that ends the wait
\* starts the next attempt, which estimates the gas again.
C19_ThreeAttemptsThenFalse ==
    [][ /\ tx'.i <= 2 /\ rpc'.estimates <= 3 /\ rpc'.sends <= 3
        /\ ret'.k # "throw"
        /\ ( tx.pc \in {"awaitSend", "awaitWait"} /\ tx' # tx
              /\ rpc'.answer.kind \in {"error", "timeout"} /\ ~isRevert(rpc'.answer) )
           => IF tx.i < 2
              THEN /\ tx'.pc = "awaitSleep" /\ tx'.i = tx.i
                   /\ slept' = 5000 /\ ret' = NoRet
              ELSE /\ tx'.pc = "done" /\ tx'.result = FALSE
                   /\ ret' = Returned(Bool(FALSE)) /\ slept' = 0
        /\ ( tx.pc = "awaitSleep" /\ tx' # tx )
           => /\ tx'.i = tx.i + 1
              /\ tx.encodable
                 => /\ tx'.pc = "awaitEstimate"
                    /\ rpc'.estimates = rpc.estimates + 1
                    /\ rpc'.sends = rpc.sends
                    /\ slept' = 0 ]_vars

\* three attempts were broadcast, the confirmation of the third timed out, and
\* the submission has returned false
C19_Witness ==
    /\ tx.pc = "done" /\ tx.i = 2 /\ tx.result = FALSE
    /\ rpc.estimates = 3 /\ rpc.sends = 3
    /\ rpc.answer.op = "wait" /\ rpc.answer.kind = "timeout"
    /\ ret = Returned(Bool(FALSE))


\* C20: a finished submission has returned true exactly when the last thing it
\* heard from the node is a receipt with status 1, answered before the 60 s
\* timer, for the transaction that the same attempt of the same call broadcast;
\* otherwise it has returned false, and the caller receives that same value.
C20_TrueOnlyAfterSuccessReceipt ==
    /\ tx.pc = "done"
       => /\ tx.result
             <=> /\ rpc.answer.op = "wait" /\ rpc.answer.kind = "value"
                 /\ rpc.answer.status = 1
                 /\ rpc.sends = tx.i + 1 /\ rpc.waits >= 1
          /\ harness.pc = "called" => ret = Returned(Bool(tx.result))
          /\ harness.pc = "done" => harness.res = Returned(Bool(tx.result))
    /\ tx.pc # "done" => ret.k = "none"

\* a submission that succeeded on a retry attempt
C20_Witness ==
    /\ tx.pc = "done" /\ tx.result /\ tx.i = 1
    /\ rpc.answer = RpcVal("wait", 0, 1)
    /\ harness.res = Returned(Bool(TRUE))


----------------------------------------------------------------------------
(* Termination of sendRawTransaction, under SpecHang *)

\* C21: a submission that has started always ends by returning, whatever the
\* node does; when the last thing that happened to it was a timer firing (the
\* node did not answer in time), it has returned false and it was on its third
\* attempt; and a timer that fires at the estimation never ends the attempt.
C21_SubmissionAlwaysReturns ==
    /\ [](tx.pc = "done" /\ rpc.answer.kind = "timeout"
           => ~tx.result /\ tx.i = 2 /\ rpc.answer.op # "estimateGas")
    /\ (tx.pc # "idle" ~> (tx.pc = "done" /\ rpc.estimates <= 3))

\* the node hung at the estimation and at the broadcast of all three attempts:
\* six operations are still in flight and the submission has returned false
C21_Witness ==
    /\ tx.pc = "done" /\ ~tx.result /\ tx.i = 2
    /\ rpc.lost = 6 /\ rpc.estimates = 3 /\ rpc.sends = 3 /\ rpc.waits = 0


----------------------------------------------------------------------------
(* Failures inside runDailyTasks, under SpecRun *)

\* C22: when the create-request call has failed, by its answer or by throwing,
\* and the agent action was not reported done, the run goes on to the
\* create-agent call and does not end in failure at that point.
C22_CreateRequestFailureIsNotFatal ==
    [][ ( /\ task.pc = "awaitCreateRequest" /\ task'.pc # task.pc
          /\ task'.request.create = "failed"
          /\ ~task.isAgentDone )
        => (task'.pc = "awaitCreateAgent" /\ "createRepositories" \in net'.called) ]_vars


\* C23: when the status call has returned a response, the run does not end in
\* failure at that point; and when the body or its data object is missing, both
\* actions count as not done and the run goes on to the create-request call.
C23_AnyStatusResponseProceeds ==
    [][ (task.pc = "awaitStatus" /\ task'.pc # task.pc /\ ret.k = "return")
        => /\ task'.result.status # "Error"
           /\ (~ret.v.hasBody \/ ~ret.v.hasData)
              => /\ task'.pc = "awaitCreateRequest"
                 /\ ~task'.isRequestDone /\ ~task'.isAgentDone ]_vars


\* the run ends on this step, and not because login failed or because a call of
\* the run threw or returned no body
EndsAfterActions ==
    /\ task'.pc = "done" /\ task.pc \notin {"done", "awaitLogin"}
    /\ ~(/\ task.pc \in {"awaitStatus", "awaitCreateRequest", "awaitCreateAgent"}
         /\ (ret.k = "throw" \/ ~ret.v.hasBody))

\* C24: a run that gets to its end succeeds whatever the score message is: the
\* status is 'Work Done' when an action was performed and 'Already Done'
\* otherwise, and the score is the placeholder '?' when the extraction fails
\* (message that is not a string) and '-' when there is no message.
C24_ScoreFailureIsNotFatal ==
    [][ EndsAfterActions
        => /\ task'.result.success
           /\ task'.result.status =
                 IF task'.performed > 0 THEN "Work Done" ELSE "Already Done"
           /\ task'.pts = "other" => task'.result.points = "?"
           /\ task'.pts = "none" => task'.result.points = "-" ]_vars

\* the extraction failed in a run that performed an action
C24_Witness ==
    /\ task.pc = "done" /\ task.pts = "other"
    /\ task.result = [success |-> TRUE, points |-> "?", status |-> "Work Done"]
    /\ task.performed >= 1


\* 1 when the action's create call returned code 0 with an id and its
\* submission returned true, else 0
Completed(a) == IF a.create = "ok" /\ a.chain = "ok" THEN 1 ELSE 0

\* C25: the count of performed actions is at all times the number of actions
\* whose create call succeeded and whose submission returned true, at most 2;
\* a run that returned success reports 'Work Done' when the count is at least
\* 1 and 'Already Done' when it is 0.
C25_PerformedCountsCompletedActions ==
    /\ task.performed = Completed(task.request) + Completed(task.agent)
    /\ task.performed <= 2
    /\ (task.pc \in {"done", "handled"} /\ task.result.success)
       => /\ task.result.status \in {"Work Done", "Already Done"}
          /\ task.result.status = "Work Done" <=> task.performed >= 1

\* one action was created but its gas estimation reverted, the other was performed
C25_Witness ==
    /\ task.pc = "done" /\ task.result.success /\ task.result.status = "Work Done"
    /\ task.request.create = "ok" /\ task.request.chain = "simulatedRevert"
    /\ task.agent.create = "ok" /\ task.agent.chain = "ok"
    /\ task.performed = 1


----------------------------------------------------------------------------
(* The loop over the accounts, under Spec *)

\* C26: no step of the loop ends main(), whatever failed for the account at
\* hand; and the step that handles the result of an account stays at that
\* account and leaves the cooldown entries of all other accounts as they were.
C26_FailureStaysInsideItsAccount ==
    [][ /\ mainv'.pc # "crashed"
        /\ (mainv.pc = "awaitTasks" /\ mainv'.pc # mainv.pc)
           => /\ mainv'.pc = "awaitPause" /\ mainv'.i = mainv.i
              /\ \A k \in (DOMAIN db.data) \ {toLowerCase(Addresses[mainv.i])} :
                    k \in DOMAIN db'.data /\ db'.data[k] = db.data[k] ]_vars


\* every result the detailed run produces is one the loop is checked with
TaskResultsCoverRuns == task.pc = "done" => task.result \in TaskResults


\* C27: when a cycle ends (the loop goes to its one-hour sleep) the summary has
\* one row per configured account, the k-th row being that of account k, with
\* one of the outcomes skipped, failed or succeeded; and during the cycle the
\* rows are those of the accounts handled so far.
C27_OneRowPerAccount ==
    /\ mainv.pc = "awaitCycle"
       => /\ Len(summary) = NumAccounts
          /\ \A k \in 1..NumAccounts :
                /\ summary[k].account = k
                /\ summary[k].status \in
                     {"Skipped (Cooldown)", "Failed", "Work Done", "Already Done"}
    /\ mainv.pc = "awaitPause"
       => Len(summary) = mainv.i /\ \A k \in 1..mainv.i : summary[k].account = k

\* a cycle ended with the first account skipped and the last one failed
C27_Witness ==
    /\ mainv.pc = "awaitCycle"
    /\ summary[1].status = "Skipped (Cooldown)"
    /\ summary[NumAccounts].status = "Failed"


\* C28: the handling of an account other than the first of the list starts on
\* the step that ends the 2000 ms pause made after the account just before it.
C28_PauseBetweenAccounts ==
    [][ (mainv'.pc = "awaitTasks" /\ mainv.pc # "awaitTasks" /\ mainv'.i > 1)
        => (mainv.pc = "awaitPause" /\ mainv.i = mainv'.i - 1 /\ slept = 2000) ]_vars


----------------------------------------------------------------------------
(* Operations in flight, under SpecTx *)

\* C29: when an HTTP call or a node operation (estimation, broadcast,
\* confirmation wait) is started, no operation started earlier is still in
\* flight, the ones whose timer won the race included.
C29_OneOperationInFlight ==
    [][ ( \/ net'.uuid > net.uuid
          \/ rpc'.estimates > rpc.estimates
          \/ rpc'.sends > rpc.sends
          \/ rpc'.waits > rpc.waits )
        => rpc'.lost = 0 ]_vars


----------------------------------------------------------------------------
(* Durability of the cooldown store, under SpecLoop *)

\* C30: on the step in which main() calls updateNextRunTime(address, t) for an
\* account that succeeded, the stored file comes to contain t for that address.
C30_UpdateIsWrittenThrough ==
    [][ (mainv.pc = "awaitTasks" /\ mainv'.pc = "awaitPause" /\ task.result.success)
        => /\ file'.kind = "ok"
           /\ getNextRunTime(file'.data, Addresses[mainv.i]) = now + config.loopInterval
           /\ db'.writes = {} ]_vars

----------------------------------------------------------------------------
(* The cooldown store and its file *)

AllUsable == \A i \in Accounts : accounts[i].usable

\* C31: with a missing or corrupt store file (unparseable, or parseable but
\* not an object of integers) the store behaves as an empty one: no error of
\* the store reaches the run loop, so with every account's key usable
\* main() is never ended by an exception.
C31_BadStorageIsNeverFatal ==
    file.kind # "ok" /\ AllUsable => mainv.pc # "crashed"

\* C32: for every identity the value seen by getNextRunTime never decreases
\* over the life of the process: no step of the program lowers it.
C32_CooldownNeverDecreases ==
    [][\A i \in Accounts :
          getNextRunTime(db'.data, Addresses[i]) >= getNextRunTime(db.data, Addresses[i])]_vars

----------------------------------------------------------------------------
(* The order of the steps of an action *)

Submitting(a, pc) ==
    task.pc = pc =>
        /\ task[a].create = "ok" /\ task[a].id > 0
        /\ tx.id = task[a].id

\* the answer on which the pause before a submission was entered
CreatedWithId ==
    /\ faults.heard.kind = "res" /\ faults.heard.hasBody
    /\ faults.heard.code = 0 /\ faults.heard.hasData /\ faults.heard.x

RequestActionOver ==
    \/ task.isRequestDone
    \/ task.request.create = "failed"
    \/ task.request.create = "ok" /\ task.request.chain # "none"

\* C33: a submission is started only after the create call of the same action
\* of this run returned code 0 with an id, and it carries that id; the
\* request action is completed or abandoned before the agent's create call
\* is issued.
C33_SubmissionFollowsItsCreate ==
    /\ Submitting("request", "awaitSubmitRequest")
    /\ Submitting("agent", "awaitSubmitAgent")
    /\ task.pc \in {"awaitPauseRequest", "awaitPauseAgent"} => CreatedWithId
    /\ TxActive => task.pc \in {"awaitSubmitRequest", "awaitSubmitAgent"}
    /\ "createRepositories" \in net.called => RequestActionOver
    /\ task.pc = "awaitCreateAgent" => ~TxActive

C33_Witness ==
    /\ task.pc = "awaitSubmitAgent" /\ TxActive /\ tx.id = 2
    /\ task.request.chain = "ok" /\ task.request.id = 1

----------------------------------------------------------------------------
(* The store called with identities in any spelling *)

UpperChar(c) ==
    CASE c = "a" -> "A" [] c = "b" -> "B" [] c = "c" -> "C"
      [] c = "d" -> "D" [] c = "e" -> "E" [] c = "f" -> "F"
      [] c = "x" -> "X" [] OTHER -> c

Spellings ==
    UNION { { Addresses[i], toLowerCase(Addresses[i]),
              [k \in 1..Len(Addresses[i]) |-> UpperChar(Addresses[i][k])] } :
            i \in Accounts }

CasePairs ==
    {{"a", "A"}, {"b", "B"}, {"c", "C"}, {"d", "D"}, {"e", "E"}, {"f", "F"}, {"x", "X"}}

\* a and b differ in letter case only
SameModuloCase(a, b) ==
    /\ Len(a) = Len(b)
    /\ \A k \in 1..Len(a) : a[k] = b[k] \/ {a[k], b[k]} \in CasePairs

InitStore ==
    /\ stack = <<>>
    /\ ret = NoRet
    /\ net = NoTraffic
    /\ axios = [gen |-> 0, auth |-> 0]
    /\ token = 0
    /\ faults = [auth |-> 0, plain |-> 0, rpc |-> 0, total |-> 0, heard |-> NoVal]
    /\ now = 0
    /\ slept = 0
    /\ tx = NoTx
    /\ rpc = NoRpc
    /\ harness = [pc |-> "store", op |-> "", res |-> [k |-> "none"]]
    /\ LoopIdle

\* db.updateNextRunTime(a, t), called once the earlier write has completed
StoreSet ==
    /\ harness.pc = "store"
    /\ db.writes = {}
    /\ \E a \in Spellings, t \in 1..MaxTime :
        /\ db' = updateNextRunTime(db, a, t)
        /\ harness' = [harness EXCEPT !.op = "updateNextRunTime",
                                      !.res = [k |-> "set", a |-> a, t |-> t]]
    /\ UNCHANGED <<stack, ret, net, axios, token, faults, now, slept, tx, rpc,
                   task, mainv, summary, file, config, accounts>>

NextStore == StoreSet \/ SaveDone
SpecStore == InitStore /\ [][NextStore]_vars

\* C34: the store is case-insensitive in the identity: after
\* updateNextRunTime(a, t) getNextRunTime(b) is t for every b that differs
\* from a in letter case only, and the value of every other identity is
\* what it was.
C34_StoreIgnoresCase ==
    [][ harness'.res # harness.res \/ db'.data # db.data =>
          /\ harness'.res.k = "set"
          /\ \A b \in Spellings :
                IF SameModuloCase(harness'.res.a, b)
                THEN getNextRunTime(db'.data, b) = harness'.res.t
                ELSE getNextRunTime(db'.data, b) = getNextRunTime(db.data, b) ]_vars

C34_Witness ==
    /\ harness.pc = "store" /\ harness.res.k = "set"
    /\ harness.res.a = toLowerCase(Addresses[1]) /\ harness.res.t = 2
    /\ getNextRunTime(db.data, Addresses[1]) = 2
    /\ getNextRunTime(db.data, Addresses[2]) = 1
    /\ file.kind = "ok" /\ getNextRunTime(file.data, Addresses[1]) = 1

----------------------------------------------------------------------------
(* What a failed login leaves behind *)

\* C35: a login that fails leaves the bearer token and the default
\* Authorization credential as they were when it started (here: none).
C35_FailedLoginKeepsToken ==
    harness.pc = "done" /\ harness.op = "login" /\ ~harness.res.v.b
        => token = 0 /\ axios.auth = 0

----------------------------------------------------------------------------
(* The transactions of one submission on the network *)

\* C36: one submission causes at most one transaction to reach the network:
\* a retry's broadcast never coexists with an earlier transaction of the
\* same submission that the node has accepted.
C36_OneTransactionPerSubmission == rpc.accepted <= 1

\* C37: whenever a submission has returned false, no transaction it
\* broadcast is mined with status 1.
C37_FalseMeansNothingMined ==
    tx.pc = "done" /\ ~tx.result => rpc.mined = 0

----------------------------------------------------------------------------
(* The load that the constructor does not await *)

\* the step in which main() passes the cooldown gate for an account
PassesGate ==
    /\ mainv'.pc = "awaitTasks"
    /\ mainv.pc # "awaitTasks" \/ mainv'.i # mainv.i

\* C38: the initial load never loses data: when it completes it overwrites
\* no value written by updateNextRunTime, and no account passes the gate on
\* the pre-load map while the file holds a later time for it.
C38_LoadLosesNothing ==
    [][ /\ db.loading /\ ~db'.loading /\ db.data # EmptyData =>
              \A k \in DOMAIN db.data : k \in DOMAIN db'.data /\ db'.data[k] = db.data[k]
        /\ PassesGate /\ db'.loading /\ file.kind = "ok" =>
              ~Cooling(file.data, mainv'.i, now) ]_vars

----------------------------------------------------------------------------
(* What the cooldown is advanced for *)

RequestComplete == task.isRequestDone \/ task.request.chain = "ok"
AgentComplete == task.isAgentDone \/ task.agent.chain = "ok"

\* C39: main() advances an account's cooldown only if both daily actions are
\* complete for it, each reported done by the status check or performed in
\* this run, and 'Already Done' is reported only when the status check
\* reported both done.
C39_CooldownOnlyForCompleteWork ==
    [][ mainv.pc = "awaitTasks" /\ mainv'.pc = "awaitPause" /\ db'.data # db.data =>
          /\ RequestComplete /\ AgentComplete
          /\ task.result.status = "Already Done" =>
                task.isRequestDone /\ task.isAgentDone ]_vars

----------------------------------------------------------------------------
(* The file once every write has finished *)

\* C40: once every write started by updateNextRunTime has finished (and the
\* load has), the file equals the in-memory map: no older snapshot is left
\* on disk and no failed write is left behind a newer map.
C40_FileEqualsMapWhenQuiet ==
    mainv.pc # "start" /\ db.writes = {} /\ ~db.loading /\ db.data # NullData =>
        /\ file.kind = "ok" => file.data = db.data
        /\ file.kind # "ok" => db.data = EmptyData

====
